---- MODULE Spec2Model ----
(***************************************************************************)
(* Model of the resilient operation layer of ai_crm_automation:            *)
(*   utils/api_client.py      AsyncApiClient (lazy session, retried        *)
(*                            request, response decoding/classification)   *)
(*   utils/error_handler.py   ApiError, ValidationError, require           *)
(*   agents/hubspot_agent.py  HubSpotAgent (contacts, deals, lookup)       *)
(*   agents/email_agent.py    EmailAgent.send_confirmation                 *)
(*   agents/orchestrator_agent.py  OrchestratorAgent.run and its tools     *)
(* One step of the model is one HTTP attempt of a request call, or one     *)
(* stretch of agent code between two awaits.                               *)
(***************************************************************************)
EXTENDS Integers, Sequences, FiniteSets, TLC

VARIABLES
    client,     \* AsyncApiClient._client of each client: state and pools created
    remote,     \* what the remote services hold: contacts, deals, associations, mails
    frame,      \* per caller: the agent method being executed and its locals
    call,       \* per caller: the AsyncApiClient.request call in progress
    wire,       \* per caller: the request calls the current method has finished
    config,     \* the process-wide configuration read by the agents
    hist,       \* what the direct caller got back: how many outcomes, and the last one
    run         \* OrchestratorAgent.run: the executor loop and its scratchpad

vars == <<client, remote, frame, call, wire, config, hist, run>>

----------------------------------------------------------------------------
(* Bounds of the model.                                                    *)

\* number of agent methods a direct caller invokes in one behaviour
MaxOps == 2

\* length of the plan the tool-selection engine follows in one run
MaxPlan == 3

\* calls per behaviour where the arguments of a call range widely
MaxCalls == 1

Emails == {"a@x.io", "b@x.io"}

Null == "None"

----------------------------------------------------------------------------
(* Values: bodies, exceptions, outcomes.                                   *)

\* A decoded body or a returned dict. kind "dict" is a JSON object, "json" any
\* other JSON value, "text" the raw text. id 0 stands for a missing "id" key.
DictBody(id, results) ==
    [kind |-> "dict", id |-> id, results |-> results, text |-> "", status |-> ""]

JsonBody(text) ==
    [kind |-> "json", id |-> 0, results |-> <<>>, text |-> text, status |-> ""]

TextBody(text) ==
    [kind |-> "text", id |-> 0, results |-> <<>>, text |-> text, status |-> ""]

NoBody == [kind |-> "none", id |-> 0, results |-> <<>>, text |-> "", status |-> ""]

\* ApiError(status, message, details)
ApiError(status, details) ==
    [type |-> "ApiError", status |-> status, details |-> details]

\* ValidationError raised by require(False, message)
ValidationError == [type |-> "ValidationError", status |-> 0, details |-> NoBody]

\* pydantic's ValidationError, raised when a model is built from a value its
\* field type rejects; it is not the ValidationError of error_handler.py
PydanticValidationError ==
    [type |-> "pydantic.ValidationError", status |-> 0, details |-> NoBody]

\* an exception of the HTTP library or of asyncio
TransportError(type) == [type |-> type, status |-> 0, details |-> NoBody]

NoExc == [type |-> "none", status |-> 0, details |-> NoBody]

Returned(body) == [kind |-> "return", body |-> body, exc |-> NoExc]

Raised(exc) == [kind |-> "raise", body |-> NoBody, exc |-> exc]

Pending == [kind |-> "none", body |-> NoBody, exc |-> NoExc]

----------------------------------------------------------------------------
(* AsyncApiClient: utils/api_client.py                                     *)

Clients == {"hubspot", "email"}

\* __init__: self._client = None
NewClient == [state |-> "none", created |-> 0, closed |-> 0, aclose |-> "none"]

\* ensure_session: a client is built when there is none or it is closed
ensure_session(c) ==
    IF c.state = "none" \/ c.state = "closed"
    THEN [c EXCEPT !.state = "open", !.created = @ + 1]
    ELSE c

\* close without the test of line 36
closeUnguarded(c) == [c EXCEPT !.state = "closed", !.closed = @ + 1]

\* close: the client is closed when there is one and it is open
close(c) ==
    IF c.state = "open"
    THEN [c EXCEPT !.state = "closed", !.closed = @ + 1]
    ELSE c

\* stop=stop_after_attempt(3)
StopAfterAttempt == 3

\* wait=wait_exponential(multiplier=0.5, min=0.5, max=4), in half seconds
WaitMultiplier == 1

WaitMin == 1

WaitMax == 8

ReraiseOff == FALSE

\* reraise=True
Reraise == TRUE

\* the exception classes caught in line 88 and named by the retry predicate
TransientTypes == {"httpx.ConnectError", "httpx.ReadTimeout", "asyncio.TimeoutError"}

RetryIfAnyException(exc) == exc.type # "none"

\* retry=retry_if_exception_type((httpx.HTTPError, asyncio.TimeoutError))
RetryIf(exc) == exc.type \in TransientTypes

RECURSIVE Pow2(_)

Pow2(n) == IF n <= 0 THEN 1 ELSE 2 * Pow2(n - 1)

Max(a, b) == IF a >= b THEN a ELSE b

Min(a, b) == IF a <= b THEN a ELSE b

\* the exponent taken from the attempt number itself: 1s, 2s
WaitExponentialFromTwo(n) == Max(Max(0, WaitMin), Min(WaitMultiplier * Pow2(n), WaitMax))

\* the sleep after failed attempt number n
WaitExponential(n) == Max(Max(0, WaitMin), Min(WaitMultiplier * Pow2(n - 1), WaitMax))

\* A response as the HTTP library hands it over. doc is what response.json()
\* yields, NoBody when the text is not valid JSON (ValueError).
Response(status, ctype, doc, text) ==
    [status |-> status, ctype |-> ctype, doc |-> doc, text |-> text]

NoResponse == Response(0, "", NoBody, "")

JsonTypes == {"application/json", "application/json; charset=utf-8"}

\* lines 71-78: "application/json" in content_type, json() or text
Decode(resp) ==
    IF resp.ctype \in JsonTypes
    THEN IF resp.doc.kind # "none" THEN resp.doc ELSE TextBody(resp.text)
    ELSE TextBody(resp.text)

\* request without the except ValueError of line 75
ClassifyUncaught(resp) ==
    IF resp.ctype \in JsonTypes /\ resp.doc.kind = "none"
    THEN Raised(TransportError("ValueError"))
    ELSE IF 200 <= resp.status /\ resp.status < 300
    THEN Returned(Decode(resp))
    ELSE Raised(ApiError(resp.status, Decode(resp)))

ClassifyBelow400(resp) ==
    IF 200 <= resp.status /\ resp.status < 400
    THEN Returned(Decode(resp))
    ELSE Raised(ApiError(resp.status, Decode(resp)))

\* lines 80-87: the body for a status in [200, 300), else ApiError
Classify(resp) ==
    IF 200 <= resp.status /\ resp.status < 300
    THEN Returned(Decode(resp))
    ELSE Raised(ApiError(resp.status, Decode(resp)))

\* What one attempt meets: a response, or an exception of the transport.
\* processed tells whether the remote acted on the request of the attempt.
GotResponse(resp, processed) ==
    [kind |-> "response", resp |-> resp, err |-> "", processed |-> processed]

GotError(type, processed) ==
    [kind |-> "error", resp |-> NoResponse, err |-> type, processed |-> processed]

\* lines 63-93: one execution of the body of request
RequestBody(got) ==
    IF got.kind = "response" THEN Classify(got.resp)
    ELSE Raised(TransportError(got.err))

RetryingStopAfter(stop, n, res) ==
    IF res.kind = "raise" /\ RetryIf(res.exc)
    THEN IF n >= stop
         THEN IF Reraise THEN res ELSE Raised(TransportError("tenacity.RetryError"))
         ELSE Pending
    ELSE res

RetryingFourAttempts(n, res) == RetryingStopAfter(StopAfterAttempt + 1, n, res)

RetryingTwoAttempts(n, res) == RetryingStopAfter(StopAfterAttempt - 1, n, res)

\* the retry decorator, lines 45-50: after attempt number n ended with res,
\* Pending means that another attempt follows
Retrying(n, res) ==
    IF res.kind = "raise" /\ RetryIf(res.exc)
    THEN IF n >= StopAfterAttempt
         THEN IF Reraise THEN res ELSE Raised(TransportError("tenacity.RetryError"))
         ELSE Pending
    ELSE res

\* a request on the wire
Req(method, path, email, id, id2, props) ==
    [method |-> method, path |-> path, email |-> email, id |-> id, id2 |-> id2,
     props |-> props]

NoReq == Req("", "", Null, 0, 0, {})

\* the state of one call of request
NewCall(cl, req) ==
    [active |-> TRUE, client |-> cl, req |-> req, attempts |-> 0, tries |-> <<>>,
     waits |-> <<>>, out |-> Pending]

NoCall ==
    [active |-> FALSE, client |-> "hubspot", req |-> NoReq, attempts |-> 0,
     tries |-> <<>>, waits |-> <<>>, out |-> Pending]

RECURSIVE SumAttempts(_)
SumAttempts(ps) ==
    IF ps = {} THEN 0
    ELSE LET p == CHOOSE q \in ps : TRUE
         IN  call[p].attempts + SumAttempts(ps \ {p})

\* one attempt counter for all the calls in flight on a client
AfterAttemptSharedCounter(c, got) ==
    LET n == SumAttempts({p \in DOMAIN call :
                             call[p].active /\ call[p].client = c.client}) + 1
        out == Retrying(n, RequestBody(got))
    IN  [c EXCEPT !.attempts = @ + 1,
                  !.tries = Append(@, got),
                  !.waits = IF out.kind = "none" THEN Append(@, WaitExponential(n)) ELSE @,
                  !.out = out,
                  !.active = (out.kind = "none")]

\* a retry loop that starts over where it should give up
AfterAttemptStartingOver(c, got) ==
    LET n == c.attempts + 1
        res == RequestBody(got)
    IN  IF res.kind = "raise" /\ RetryIf(res.exc) /\ n >= StopAfterAttempt
        THEN [c EXCEPT !.attempts = 0, !.tries = <<>>, !.waits = <<>>]
        ELSE [c EXCEPT !.attempts = n,
                       !.tries = Append(@, got),
                       !.waits = IF Retrying(n, res).kind = "none"
                                 THEN Append(@, WaitExponential(n)) ELSE @,
                       !.out = Retrying(n, res),
                       !.active = (Retrying(n, res).kind = "none")]

\* request, one attempt: the call after the attempt met got
AfterAttempt(c, got) ==
    LET n == c.attempts + 1
        out == Retrying(n, RequestBody(got))
    IN  [c EXCEPT !.attempts = n,
                  !.tries = Append(@, got),
                  !.waits = IF out.kind = "none" THEN Append(@, WaitExponential(n)) ELSE @,
                  !.out = out,
                  !.active = (out.kind = "none")]

----------------------------------------------------------------------------
(* The remote services, as the agents' calls address them.                 *)

ContactsPath == "/crm/v3/objects/contacts"

SearchPath == "/crm/v3/objects/contacts/search"

ContactPath == "/crm/v3/objects/contacts/{id}"

DealsPath == "/crm/v3/objects/deals"

DealPath == "/crm/v3/objects/deals/{id}"

AssocPath == "/crm/v3/objects/deals/{id}/associations/contacts/{id}/deal_to_contact"

MailPath == "/mail/send"

AnyPath == "/any"

NewRemote == [contacts |-> {}, deals |-> {}, assocs |-> {}, mails |-> {}, nextId |-> 1]

Json(status, doc) == Response(status, "application/json", doc, "{..}")

\* an error document: a JSON object with a message and no id
ErrorDoc(message) ==
    [kind |-> "dict", id |-> 0, results |-> <<>>, text |-> message, status |-> ""]

ContactsOf(rem, email) == {c \in rem.contacts : c.email = email}

\* the answer of a search with limit 1 that sees the given contacts
SearchDoc(found) ==
    DictBody(0, IF found = {} THEN <<>> ELSE <<CHOOSE c \in found : \A d \in found : c.id <= d.id>>)

\* The answers the remote may give to a request it processes, each with the
\* state it is in afterwards.
Serve(req, rem) ==
    CASE req.method = "POST" /\ req.path = ContactsPath ->
           IF ContactsOf(rem, req.email) # {}
           THEN {[resp |-> Json(409, ErrorDoc("Contact already exists")), rem |-> rem]}
           ELSE {[resp |-> Json(201, DictBody(rem.nextId, <<>>)),
                  rem |-> [rem EXCEPT !.contacts = @ \cup {[id |-> rem.nextId, email |-> req.email]},
                                      !.nextId = @ + 1]]}
      [] req.method = "POST" /\ req.path = SearchPath ->
           \* the search index may lag behind the stored contacts
           {[resp |-> Json(200, SearchDoc(found)), rem |-> rem] :
                found \in {ContactsOf(rem, req.email), {}}}
      [] req.method = "PATCH" /\ req.path = ContactPath ->
           IF \E c \in rem.contacts : c.id = req.id
           THEN {[resp |-> Json(200, DictBody(req.id, <<>>)), rem |-> rem]}
           ELSE {[resp |-> Json(404, ErrorDoc("resource not found")), rem |-> rem]}
      [] req.method = "POST" /\ req.path = DealsPath ->
           {[resp |-> Json(201, DictBody(rem.nextId, <<>>)),
             rem |-> [rem EXCEPT !.deals = @ \cup {rem.nextId}, !.nextId = @ + 1]]}
      [] req.method = "PATCH" /\ req.path = DealPath ->
           IF req.id \in rem.deals
           THEN {[resp |-> Json(200, DictBody(req.id, <<>>)), rem |-> rem]}
           ELSE {[resp |-> Json(404, ErrorDoc("resource not found")), rem |-> rem]}
      [] req.method = "PUT" /\ req.path = AssocPath ->
           IF req.id \in rem.deals /\ (\E c \in rem.contacts : c.id = req.id2)
           THEN {[resp |-> Json(200, DictBody(req.id, <<>>)),
                  rem |-> [rem EXCEPT !.assocs = @ \cup {<<req.id, req.id2>>}]]}
           ELSE {[resp |-> Json(404, ErrorDoc("resource not found")), rem |-> rem]}
      [] req.method = "POST" /\ req.path = MailPath ->
           {[resp |-> Response(202, "text/plain", NoBody, ""),
             rem |-> [rem EXCEPT !.mails = @ \cup {req.email}]]}
      [] OTHER -> {}

\* statuses and shapes of the responses a remote of no particular kind gives
AnyStatuses == {199, 200, 299, 300, 404, 500}

AnyResponses ==
    {Response(st, ct, doc, "raw") :
        st \in AnyStatuses,
        ct \in {"application/json; charset=utf-8", "text/plain"},
        doc \in {DictBody(7, <<>>), NoBody}}

\* What one attempt of req can meet, with the remote's state afterwards: the
\* connection fails and nothing is processed; the request is processed and
\* answered; it is processed and the answer is lost; the server fails.
Meets(req, rem) ==
    IF req.path = AnyPath
    THEN {[got |-> GotResponse(r, TRUE), rem |-> rem] : r \in AnyResponses}
         \cup {[got |-> GotError(t, FALSE), rem |-> rem] : t \in TransientTypes}
    ELSE {[got |-> GotResponse(a.resp, TRUE), rem |-> a.rem] : a \in Serve(req, rem)}
         \cup {[got |-> GotError("httpx.ReadTimeout", TRUE), rem |-> a.rem] :
                  a \in Serve(req, rem)}
         \cup {[got |-> GotError("httpx.ConnectError", FALSE), rem |-> rem]}
         \cup {[got |-> GotResponse(Json(500, ErrorDoc("internal error")), FALSE),
                 rem |-> rem]}

----------------------------------------------------------------------------
(* The agents: agents/hubspot_agent.py, agents/email_agent.py              *)

\* an Optional[float]: <<>> is None, <<a>> is the float of integral value a
NoAmount == <<>>

\* the arguments of an agent method; Null is None, deal_id 0 is no id
NoPayload ==
    [email |-> Null, first_name |-> Null, last_name |-> Null, phone |-> Null,
     name |-> Null, amount |-> NoAmount, stage |-> Null, pipeline |-> Null,
     associated_contact_email |-> Null, deal_id |-> 0,
     to_email |-> Null, subject |-> Null, method |-> "", api_key |-> Null]

\* truth value of an Optional[str]
Truthy(v) == v # Null /\ v # ""

\* a dict entry that is set only under a condition
Entry(cond, key, value) == IF cond THEN {<<key, value>>} ELSE {}

\* the locals of an agent method between two awaits
Frame(name, payload, pc) ==
    [name |-> name, payload |-> payload, pc |-> pc, err |-> NoExc, resp |-> NoBody,
     out |-> Pending]

Idle == Frame("idle", NoPayload, "idle")

\* the method awaits a request call
Await(fr, cl, req) == [frame |-> fr, call |-> NewCall(cl, req)]

\* the method returns or raises
Done(fr, out) == [frame |-> [fr EXCEPT !.pc = "done", !.out = out], call |-> NoCall]

\* require(condition, message), error_handler.py
require(cond, fr, then) == IF cond THEN then ELSE Done(fr, Raised(ValidationError))

\* HubSpotAgent.__init__, lines 47-53, with the transport built before the
\* token is required
HubSpotAgentTransportFirst(api_key, env) ==
    LET token == IF Truthy(api_key) THEN api_key ELSE env
    IN  [out |-> IF Truthy(token) THEN Returned(NoBody) ELSE Raised(ValidationError),
         client |-> <<NewClient>>]

\* HubSpotAgent.__init__, lines 47-53: env is the value of HUBSPOT_ACCESS_TOKEN,
\* Null when it is not set; client is the AsyncApiClient built, if any
HubSpotAgent(api_key, env) ==
    LET token == IF Truthy(api_key) THEN api_key ELSE env
    IN  IF Truthy(token)
        THEN [out |-> Returned(NoBody), client |-> <<NewClient>>]
        ELSE [out |-> Raised(ValidationError), client |-> <<>>]

\* _get_contact_by_email, lines 55-66: the search request
SearchReq(email) ==
    Req("POST", SearchPath, email, 0, 0,
        {<<"filter", <<"email", "EQ", email>>>>, <<"limit", <<1>>>>})

NoneContact == [id |-> 0, email |-> Null]

\* the lookup taking the last result
FirstResultLast(res) ==
    IF res.kind # "dict" THEN NoneContact
    ELSE IF res.results = <<>> THEN NoneContact
    ELSE res.results[Len(res.results)]

\* _get_contact_by_email, lines 68-73: the first result, or None
FirstResult(res) ==
    IF res.kind # "dict" THEN NoneContact
    ELSE IF res.results = <<>> THEN NoneContact
    ELSE res.results[1]

\* _find_contact_id_by_email, lines 76-79: the id of the contact, 0 for None
ContactId(res) ==
    IF FirstResult(res) = NoneContact THEN 0 ELSE FirstResult(res).id

\* create_contact, lines 82-88
CreateContactProps(pl) ==
    {<<"email", <<pl.email>>>>}
    \cup Entry(Truthy(pl.first_name), "firstname", <<pl.first_name>>)
    \cup Entry(Truthy(pl.last_name), "lastname", <<pl.last_name>>)
    \cup Entry(Truthy(pl.phone), "phone", <<pl.phone>>)

\* update_contact, lines 120-126
UpdateContactProps(pl) ==
    Entry(pl.first_name # Null, "firstname", <<pl.first_name>>)
    \cup Entry(pl.last_name # Null, "lastname", <<pl.last_name>>)
    \cup Entry(pl.phone # Null, "phone", <<pl.phone>>)

RECURSIVE Pow10(_)

Pow10(n) == IF n <= 0 THEN 1 ELSE 10 * Pow10(n - 1)

RECURSIVE Exponent(_)

\* the decimal exponent of a >= 1
Exponent(a) == IF a < 10 THEN 0 ELSE 1 + Exponent(a \div 10)

RECURSIVE StripZeros(_)

StripZeros(q) == IF q # 0 /\ q % 10 = 0 THEN StripZeros(q \div 10) ELSE q

\* format(a, "g") of a float of integral value a >= 0: 6 significant digits,
\* trailing zeros removed, exponent notation from 1e+06
FormatG(a) ==
    IF a < Pow10(6) THEN ToString(a)
    ELSE LET e == Exponent(a)
             scale == Pow10(e - 5)
             r == (a + scale \div 2) \div scale
             q == IF r = Pow10(6) THEN Pow10(5) ELSE r
             x == IF r = Pow10(6) THEN e + 1 ELSE e
             m == ToString(StripZeros(q))
             frac == SubSeq(m, 2, Len(m))
         IN  SubSeq(m, 1, 1) \o (IF frac = "" THEN "" ELSE "." \o frac)
             \o "e+" \o (IF x < 10 THEN "0" ELSE "") \o ToString(x)

\* the default name with `elif payload.amount:` for line 135
DealNameTruthyAmount(pl) ==
    IF Truthy(pl.name) THEN <<pl.name>>
    ELSE IF Truthy(pl.associated_contact_email)
         THEN <<"Deal for ", pl.associated_contact_email>>
    ELSE IF pl.amount # NoAmount /\ pl.amount # <<0>>
         THEN <<"Deal ", FormatG(pl.amount[1])>>
    ELSE <<"Untitled Deal">>

\* create_deal, lines 131-138: the name as a list of its parts
DealName(pl) ==
    IF Truthy(pl.name) THEN <<pl.name>>
    ELSE IF Truthy(pl.associated_contact_email)
         THEN <<"Deal for ", pl.associated_contact_email>>
    ELSE IF pl.amount # NoAmount THEN <<"Deal ", FormatG(pl.amount[1])>>
    ELSE <<"Untitled Deal">>

\* create_deal, lines 140-146
CreateDealProps(pl) ==
    {<<"dealname", DealName(pl)>>}
    \cup Entry(pl.amount # NoAmount, "amount", pl.amount)
    \cup Entry(Truthy(pl.stage), "dealstage", <<pl.stage>>)
    \cup Entry(Truthy(pl.pipeline), "pipeline", <<pl.pipeline>>)

\* update_deal that sends every field, null or not
UpdateDealPropsFull(pl) ==
    {<<"dealname", <<pl.name>>>>, <<"amount", pl.amount>>,
     <<"dealstage", <<pl.stage>>>>, <<"pipeline", <<pl.pipeline>>>>}

\* update_deal, lines 162-170
UpdateDealProps(pl) ==
    Entry(pl.name # Null, "dealname", <<pl.name>>)
    \cup Entry(pl.amount # NoAmount, "amount", pl.amount)
    \cup Entry(pl.stage # Null, "dealstage", <<pl.stage>>)
    \cup Entry(pl.pipeline # Null, "pipeline", <<pl.pipeline>>)

\* the dict create_contact builds for a contact that existed, lines 100-104
ExistingContact(contact) ==
    [kind |-> "dict", id |-> contact.id, results |-> <<>>, text |-> "", status |-> "existing"]

\* create_contact that does not recover from the conflict
create_contact_no_recovery(fr, out) ==
    CASE fr.pc = "start" ->
           Await([fr EXCEPT !.pc = "post"], "hubspot",
                 Req("POST", ContactsPath, fr.payload.email, 0, 0, CreateContactProps(fr.payload)))
      [] fr.pc = "post" ->
           IF out.kind = "return" THEN Done(fr, Returned(out.body))
           ELSE Done(fr, Raised(out.exc))

\* create_contact that makes up a record when the lookup finds nothing
create_contact_fabricating(fr, out) ==
    CASE fr.pc = "start" ->
           Await([fr EXCEPT !.pc = "post"], "hubspot",
                 Req("POST", ContactsPath, fr.payload.email, 0, 0, CreateContactProps(fr.payload)))
      [] fr.pc = "post" ->
           IF out.kind = "return" THEN Done(fr, Returned(out.body))
           ELSE IF out.exc.type = "ApiError" /\ out.exc.status = 409
           THEN Await([fr EXCEPT !.pc = "lookup", !.err = out.exc], "hubspot",
                      SearchReq(fr.payload.email))
           ELSE Done(fr, Raised(out.exc))
      [] fr.pc = "lookup" ->
           IF out.kind = "raise" THEN Done(fr, Raised(out.exc))
           ELSE Done(fr, Returned(ExistingContact(FirstResult(out.body))))

\* create_contact that raises the conflict when its lookup fails
create_contact_masking(fr, out) ==
    CASE fr.pc = "start" ->
           Await([fr EXCEPT !.pc = "post"], "hubspot",
                 Req("POST", ContactsPath, fr.payload.email, 0, 0, CreateContactProps(fr.payload)))
      [] fr.pc = "post" ->
           IF out.kind = "return" THEN Done(fr, Returned(out.body))
           ELSE IF out.exc.type = "ApiError" /\ out.exc.status = 409
           THEN Await([fr EXCEPT !.pc = "lookup", !.err = out.exc], "hubspot",
                      SearchReq(fr.payload.email))
           ELSE Done(fr, Raised(out.exc))
      [] fr.pc = "lookup" ->
           IF out.kind = "return" /\ FirstResult(out.body) # NoneContact
           THEN Done(fr, Returned(ExistingContact(FirstResult(out.body))))
           ELSE Done(fr, Raised(fr.err))

\* create_contact that looks the contact up after any ApiError
create_contact_recovering_any(fr, out) ==
    CASE fr.pc = "start" ->
           Await([fr EXCEPT !.pc = "post"], "hubspot",
                 Req("POST", ContactsPath, fr.payload.email, 0, 0, CreateContactProps(fr.payload)))
      [] fr.pc = "post" ->
           IF out.kind = "return" THEN Done(fr, Returned(out.body))
           ELSE IF out.exc.type = "ApiError"
           THEN Await([fr EXCEPT !.pc = "lookup", !.err = out.exc], "hubspot",
                      SearchReq(fr.payload.email))
           ELSE Done(fr, Raised(out.exc))
      [] fr.pc = "lookup" ->
           IF out.kind = "raise" THEN Done(fr, Raised(out.exc))
           ELSE IF FirstResult(out.body) # NoneContact
           THEN Done(fr, Returned(ExistingContact(FirstResult(out.body))))
           ELSE Done(fr, Raised(fr.err))

\* create_contact, lines 81-115: the code after the await at fr.pc ended with out
create_contact(fr, out) ==
    CASE fr.pc = "start" ->
           Await([fr EXCEPT !.pc = "post"], "hubspot",
                 Req("POST", ContactsPath, fr.payload.email, 0, 0, CreateContactProps(fr.payload)))
      [] fr.pc = "post" ->
           IF out.kind = "return" THEN Done(fr, Returned(out.body))
           ELSE IF out.exc.type = "ApiError" /\ out.exc.status = 409
           THEN Await([fr EXCEPT !.pc = "lookup", !.err = out.exc], "hubspot",
                      SearchReq(fr.payload.email))
           ELSE Done(fr, Raised(out.exc))
      [] fr.pc = "lookup" ->
           IF out.kind = "raise" THEN Done(fr, Raised(out.exc))
           ELSE IF FirstResult(out.body) # NoneContact
           THEN Done(fr, Returned(ExistingContact(FirstResult(out.body))))
           ELSE Done(fr, Raised(fr.err))

\* update_contact without the require of line 119
update_contact_unchecked(fr, out) ==
    CASE fr.pc = "start" ->
           Await([fr EXCEPT !.pc = "lookup"], "hubspot", SearchReq(fr.payload.email))
      [] fr.pc = "lookup" ->
           IF out.kind = "raise" THEN Done(fr, Raised(out.exc))
           ELSE Await([fr EXCEPT !.pc = "patch"], "hubspot",
                      Req("PATCH", ContactPath, Null, ContactId(out.body), 0,
                          UpdateContactProps(fr.payload)))
      [] fr.pc = "patch" -> Done(fr, out)

\* update_contact, lines 117-128
update_contact(fr, out) ==
    CASE fr.pc = "start" ->
           Await([fr EXCEPT !.pc = "lookup"], "hubspot", SearchReq(fr.payload.email))
      [] fr.pc = "lookup" ->
           IF out.kind = "raise" THEN Done(fr, Raised(out.exc))
           ELSE require(ContactId(out.body) # 0, fr,
                    Await([fr EXCEPT !.pc = "patch"], "hubspot",
                          Req("PATCH", ContactPath, Null, ContactId(out.body), 0,
                              UpdateContactProps(fr.payload))))
      [] fr.pc = "patch" -> Done(fr, out)

\* create_deal without the require of line 154
create_deal_unchecked(fr, out) ==
    CASE fr.pc = "start" ->
           Await([fr EXCEPT !.pc = "post"], "hubspot",
                 Req("POST", DealsPath, Null, 0, 0, CreateDealProps(fr.payload)))
      [] fr.pc = "post" ->
           IF out.kind = "raise" THEN Done(fr, Raised(out.exc))
           ELSE IF out.body.kind # "dict"
           THEN Done(fr, Raised(TransportError("AttributeError")))
           ELSE IF Truthy(fr.payload.associated_contact_email)
           THEN Await([fr EXCEPT !.pc = "lookup", !.resp = out.body], "hubspot",
                      SearchReq(fr.payload.associated_contact_email))
           ELSE Done(fr, Returned(out.body))
      [] fr.pc = "lookup" ->
           IF out.kind = "raise" THEN Done(fr, Raised(out.exc))
           ELSE Await([fr EXCEPT !.pc = "put"], "hubspot",
                      Req("PUT", AssocPath, Null, fr.resp.id, ContactId(out.body), {}))
      [] fr.pc = "put" ->
           IF out.kind = "raise" THEN Done(fr, Raised(out.exc))
           ELSE Done(fr, Returned(fr.resp))

\* create_deal that deletes the deal when the contact is not found
create_deal_compensating(fr, out) ==
    CASE fr.pc = "start" ->
           Await([fr EXCEPT !.pc = "post"], "hubspot",
                 Req("POST", DealsPath, Null, 0, 0, CreateDealProps(fr.payload)))
      [] fr.pc = "post" ->
           IF out.kind = "raise" THEN Done(fr, Raised(out.exc))
           ELSE IF out.body.kind # "dict"
           THEN Done(fr, Raised(TransportError("AttributeError")))
           ELSE IF Truthy(fr.payload.associated_contact_email)
           THEN Await([fr EXCEPT !.pc = "lookup", !.resp = out.body], "hubspot",
                      SearchReq(fr.payload.associated_contact_email))
           ELSE Done(fr, Returned(out.body))
      [] fr.pc = "lookup" ->
           IF out.kind = "raise" THEN Done(fr, Raised(out.exc))
           ELSE IF ContactId(out.body) = 0
           THEN Await([fr EXCEPT !.pc = "undo"], "hubspot",
                      Req("DELETE", DealPath, Null, fr.resp.id, 0, {}))
           ELSE Await([fr EXCEPT !.pc = "put"], "hubspot",
                      Req("PUT", AssocPath, Null, fr.resp.id, ContactId(out.body), {}))
      [] fr.pc = "undo" -> Done(fr, Raised(ValidationError))
      [] fr.pc = "put" ->
           IF out.kind = "raise" THEN Done(fr, Raised(out.exc))
           ELSE Done(fr, Returned(fr.resp))

\* create_deal, lines 130-159
create_deal(fr, out) ==
    CASE fr.pc = "start" ->
           Await([fr EXCEPT !.pc = "post"], "hubspot",
                 Req("POST", DealsPath, Null, 0, 0, CreateDealProps(fr.payload)))
      [] fr.pc = "post" ->
           IF out.kind = "raise" THEN Done(fr, Raised(out.exc))
           ELSE IF out.body.kind # "dict"
           THEN Done(fr, Raised(TransportError("AttributeError")))
           ELSE IF Truthy(fr.payload.associated_contact_email)
           THEN Await([fr EXCEPT !.pc = "lookup", !.resp = out.body], "hubspot",
                      SearchReq(fr.payload.associated_contact_email))
           ELSE Done(fr, Returned(out.body))
      [] fr.pc = "lookup" ->
           IF out.kind = "raise" THEN Done(fr, Raised(out.exc))
           ELSE require(ContactId(out.body) # 0, fr,
                    Await([fr EXCEPT !.pc = "put"], "hubspot",
                          Req("PUT", AssocPath, Null, fr.resp.id, ContactId(out.body), {})))
      [] fr.pc = "put" ->
           IF out.kind = "raise" THEN Done(fr, Raised(out.exc))
           ELSE Done(fr, Returned(fr.resp))

\* update_deal, lines 161-173
update_deal(fr, out) ==
    CASE fr.pc = "start" ->
           Await([fr EXCEPT !.pc = "patch"], "hubspot",
                 Req("PATCH", DealPath, Null, fr.payload.deal_id, 0, UpdateDealProps(fr.payload)))
      [] fr.pc = "patch" -> Done(fr, out)

\* EmailPayload.to, email_agent.py line 18: the strings EmailStr accepts,
\* among those the model uses, are the well-formed addresses
EmailStr(v) == v \in Emails \cup {"ops@x.io"}

\* send_confirmation and send (sendgrid), email_agent.py lines 57-72, 122-126
send_confirmation(fr, out, cfg) ==
    LET recipient == IF Truthy(fr.payload.to_email) THEN fr.payload.to_email
                     ELSE cfg.default_confirmation_recipient
        subject_final == IF Truthy(fr.payload.subject) THEN fr.payload.subject
                         ELSE "CRM Action Confirmation"
    IN  CASE fr.pc = "start" ->
               require(recipient # Null, fr,
                   IF ~EmailStr(recipient) THEN Done(fr, Raised(PydanticValidationError))
                   ELSE Await([fr EXCEPT !.pc = "send"], "email",
                              Req("POST", MailPath, recipient, 0, 0,
                                  {<<"subject", <<subject_final>>>>})))
          [] fr.pc = "send" ->
               IF out.kind = "raise" THEN Done(fr, Raised(out.exc))
               ELSE Done(fr, Returned([kind |-> "dict", id |-> 0, results |-> <<>>,
                                       text |-> "", status |-> "queued"]))

\* _get_contact_by_email, lines 55-73, called by itself: the contact is
\* returned as the dict of its id, None as no body
_get_contact_by_email(fr, out) ==
    CASE fr.pc = "start" ->
           Await([fr EXCEPT !.pc = "search"], "hubspot", SearchReq(fr.payload.email))
      [] fr.pc = "search" ->
           IF out.kind = "raise" THEN Done(fr, Raised(out.exc))
           ELSE IF FirstResult(out.body) = NoneContact THEN Done(fr, Returned(NoBody))
           ELSE Done(fr, Returned(DictBody(FirstResult(out.body).id, <<>>)))

\* a bare call of AsyncApiClient.request by a caller of the transport
request(fr, out) ==
    CASE fr.pc = "start" ->
           Await([fr EXCEPT !.pc = "call"], "hubspot",
                 Req(fr.payload.method, AnyPath, Null, 0, 0, {}))
      [] fr.pc = "call" -> Done(fr, out)

\* the code of the method of frame fr that follows the await ended with out
Continue(fr, out, cfg) ==
    CASE fr.name = "create_contact" -> create_contact(fr, out)
      [] fr.name = "update_contact" -> update_contact(fr, out)
      [] fr.name = "create_deal" -> create_deal(fr, out)
      [] fr.name = "update_deal" -> update_deal(fr, out)
      [] fr.name = "send_confirmation" -> send_confirmation(fr, out, cfg)
      [] fr.name = "request" -> request(fr, out)
      [] fr.name = "_get_contact_by_email" -> _get_contact_by_email(fr, out)

\* the method is entered and runs to its first await
Enter(name, payload, cfg) == Continue(Frame(name, payload, "start"), Pending, cfg)

----------------------------------------------------------------------------
(* Steps.                                                                  *)

Callers == DOMAIN frame

Busy(p) == frame[p].pc \notin {"idle", "done"}

\* one entry of wire: a request call that has ended, and how
Sent(c) == [req |-> c.req, out |-> c.out]

\* One attempt of the request call of caller p: lines 60-93 under the retry
\* decorator.
Attempt(p) ==
    /\ call[p].active
    /\ \E m \in Meets(call[p].req, remote) :
          /\ client' = [client EXCEPT ![call[p].client] = ensure_session(@)]
          /\ remote' = m.rem
          /\ call' = [call EXCEPT ![p] = AfterAttempt(@, m.got)]
    /\ UNCHANGED <<frame, wire, config, hist, run>>

\* what an attempt meets at a remote that answers every request, and whose
\* search sees the contacts it holds
Answers(req, rem) ==
    {m \in Meets(req, rem) :
        /\ m.got.kind = "response" /\ m.got.processed
        /\ (req.method = "POST" /\ req.path = SearchPath)
           => m.got.resp = Json(200, SearchDoc(ContactsOf(rem, req.email)))}

\* one attempt of the request call of caller p at such a remote
AttemptAnswered(p) ==
    /\ call[p].active
    /\ \E m \in Answers(call[p].req, remote) :
          /\ client' = [client EXCEPT ![call[p].client] = ensure_session(@)]
          /\ remote' = m.rem
          /\ call' = [call EXCEPT ![p] = AfterAttempt(@, m.got)]
    /\ UNCHANGED <<frame, wire, config, hist, run>>

\* the answers of any shape a search may get: results, in a dict with an id
\* or without, no results, a JSON list, plain text, an error status
SearchAnswers(email) ==
    {Json(200, DictBody(0, <<[id |-> 1, email |-> email]>>)),
     Json(200, DictBody(0, <<[id |-> 2, email |-> email], [id |-> 1, email |-> email]>>)),
     Json(200, DictBody(0, <<>>)),
     Json(200, DictBody(7, <<>>)),
     Response(200, "application/json", JsonBody("[]"), "[]"),
     Response(200, "text/plain", NoBody, "ok"),
     Json(500, ErrorDoc("internal error"))}

\* one attempt of the search of caller p that meets any of these, or fails
AttemptSearch(p) ==
    /\ call[p].active
    /\ call[p].req.path = SearchPath
    /\ \E got \in {GotResponse(r, TRUE) : r \in SearchAnswers(call[p].req.email)}
                  \cup {GotError("httpx.ConnectError", FALSE)} :
          call' = [call EXCEPT ![p] = AfterAttempt(@, got)]
    /\ client' = [client EXCEPT ![call[p].client] = ensure_session(@)]
    /\ UNCHANGED <<remote, frame, wire, config, hist, run>>

\* The request call of caller p has ended: the method goes on to its next
\* await, or ends.
Resume(p) ==
    /\ Busy(p)
    /\ ~call[p].active
    /\ call[p].out.kind # "none"
    /\ LET next == Continue(frame[p], call[p].out, config)
       IN  /\ frame' = [frame EXCEPT ![p] = next.frame]
           /\ call' = [call EXCEPT ![p] = next.call]
    /\ wire' = [wire EXCEPT ![p] = Append(@, Sent(call[p]))]
    /\ UNCHANGED <<client, remote, config, hist, run>>

\* a direct caller invokes an agent method
Invoke(p, name, payload) ==
    /\ frame[p].pc = "idle"
    /\ run.phase = "none"
    /\ hist.count + Cardinality({q \in Callers : frame[q].pc # "idle"}) < MaxOps
    /\ LET next == Enter(name, payload, config)
       IN  /\ frame' = [frame EXCEPT ![p] = next.frame]
           /\ call' = [call EXCEPT ![p] = next.call]
    /\ wire' = [wire EXCEPT ![p] = <<>>]
    /\ UNCHANGED <<client, remote, config, hist, run>>

\* the same, for the behaviours of at most MaxCalls calls
InvokeFew(p, name, payload) ==
    /\ hist.count < MaxCalls
    /\ Invoke(p, name, payload)

\* the direct caller takes the outcome of the method
Complete(p) ==
    /\ frame[p].pc = "done"
    /\ run.phase = "none"
    /\ hist' = [count |-> hist.count + 1,
                last |-> [name |-> frame[p].name, payload |-> frame[p].payload,
                          out |-> frame[p].out]]
    /\ frame' = [frame EXCEPT ![p] = Idle]
    /\ call' = [call EXCEPT ![p] = NoCall]
    /\ UNCHANGED <<client, remote, wire, config, run>>

\* no AsyncApiClient object yet: the agent that owns it is not constructed
NoClient == [NewClient EXCEPT !.state = "absent"]

\* main.py line 110: HubSpotAgent(api_key=..., base_url=...) is called; the
\* outcome of the constructor is what the caller sees last
Construct(api_key) ==
    /\ client["hubspot"] = NoClient
    /\ LET made == HubSpotAgent(api_key, config.HUBSPOT_ACCESS_TOKEN)
       IN  /\ client' = IF made.client = <<>> THEN client
                        ELSE [client EXCEPT !["hubspot"] = made.client[1]]
           /\ hist' = [hist EXCEPT !.last = [name |-> "HubSpotAgent",
                                             payload |-> [NoPayload EXCEPT !.api_key = api_key],
                                             out |-> made.out]]
    /\ UNCHANGED <<remote, frame, call, wire, config, run>>

\* a direct caller invokes a method of the agent it has constructed
InvokeOn(p, name, payload) ==
    /\ client["hubspot"] # NoClient
    /\ Invoke(p, name, payload)

----------------------------------------------------------------------------
(* OrchestratorAgent: agents/orchestrator_agent.py                         *)
(* The executor built in _build_agent asks the tool-selection engine for   *)
(* the next tool call, awaits the tool, appends what it returned to the    *)
(* scratchpad and asks again, until the engine finishes. The engine here   *)
(* follows the system prompt: the operations of its plan in order, one     *)
(* tool call at a time, then send_confirmation_email, then the final text. *)

Step(name, payload) == [name |-> name, payload |-> payload]

PlanSteps ==
    {Step("create_contact", [NoPayload EXCEPT !.email = "a@x.io"]),
     Step("update_contact", [NoPayload EXCEPT !.email = "b@x.io", !.phone = "555"]),
     Step("create_deal", [NoPayload EXCEPT !.associated_contact_email = "a@x.io"])}

RECURSIVE SeqsOf(_, _)

\* the sequences of length n over S
SeqsOf(S, n) ==
    IF n = 0 THEN {<<>>}
    ELSE {Append(q, x) : q \in SeqsOf(S, n - 1), x \in S}

Plans == UNION {SeqsOf(PlanSteps, n) : n \in 1..MaxPlan}

\* the arguments the engine may give to send_confirmation_email
NotifyInputs == {[NoPayload EXCEPT !.to_email = t] : t \in {Null, "ops@x.io"}}

\* what run returns: the engine's final text over the scratchpad entries, or
\* the text of an except clause
Output(kind, entries, status, detail, type) ==
    [kind |-> kind, entries |-> entries, status |-> status, detail |-> detail,
     type |-> type]

NoOutput == Output("none", <<>>, 0, NoBody, "")

IdleRun ==
    [phase |-> "idle", plan |-> <<>>, next |-> 1, scratch |-> <<>>,
     notified |-> FALSE, trace |-> <<>>, output |-> NoOutput]

\* what a tool returns, lines 50, 67, 86, 105, 111: json.dumps of the action
\* and its result
Observation(fr) == [action |-> fr.name, result |-> fr.out.body]

\* run, line 139: the final text of the engine, which sums up the scratchpad
Summary(scratch) == Output("output", scratch, 0, NoBody, "")

\* run, lines 140-152: the text for an ApiError
ApiErrorText(e) ==
    Output("api_error", <<>>, e.status,
           IF e.details.kind = "none" THEN TextBody("HTTP request failed") ELSE e.details,
           e.type)

\* run, lines 153-155: the text for any other exception
ErrorText(e) == Output("error", <<>>, 0, NoBody, e.type)

\* run without the clause of line 153: the exception leaves run
RecoverApiErrorOnly(e) ==
    IF e.type = "ApiError" THEN ApiErrorText(e) ELSE Output("raised", <<>>, 0, NoBody, e.type)

\* run, lines 140-155: the except clauses
Recover(e) == IF e.type = "ApiError" THEN ApiErrorText(e) ELSE ErrorText(e)

\* one entry of run.trace: a tool the executor awaited, and how it ended
Awaited(fr) ==
    [action |-> fr.name, kind |-> fr.out.kind, type |-> fr.out.exc.type,
     exc |-> fr.out.exc]

\* run is called: the executor starts on the plan the engine made of the input
StartRun(plan) ==
    /\ run.phase = "idle"
    /\ run' = [run EXCEPT !.phase = "dispatching", !.plan = plan]
    /\ UNCHANGED <<client, remote, frame, call, wire, config, hist>>

\* the engine selects the next operation of the plan and the executor awaits
\* its tool, lines 35-105
Dispatch(p) ==
    /\ run.phase = "dispatching"
    /\ frame[p].pc = "idle"
    /\ run.next <= Len(run.plan)
    /\ LET step == run.plan[run.next]
           next == Enter(step.name, step.payload, config)
       IN  /\ frame' = [frame EXCEPT ![p] = next.frame]
           /\ call' = [call EXCEPT ![p] = next.call]
    /\ wire' = [wire EXCEPT ![p] = <<>>]
    /\ run' = [run EXCEPT !.next = @ + 1]
    /\ UNCHANGED <<client, remote, config, hist>>

\* the plan is through: the engine selects send_confirmation_email, lines
\* 107-111
Notify(p, payload) ==
    /\ run.phase = "dispatching"
    /\ frame[p].pc = "idle"
    /\ run.next > Len(run.plan)
    /\ LET next == Enter("send_confirmation", payload, config)
       IN  /\ frame' = [frame EXCEPT ![p] = next.frame]
           /\ call' = [call EXCEPT ![p] = next.call]
    /\ wire' = [wire EXCEPT ![p] = <<>>]
    /\ run' = [run EXCEPT !.phase = "notifying", !.notified = TRUE]
    /\ UNCHANGED <<client, remote, config, hist>>

\* a tool returned: its text goes to the scratchpad
ToolReturns(p) ==
    /\ run.phase \in {"dispatching", "notifying"}
    /\ frame[p].pc = "done"
    /\ frame[p].out.kind = "return"
    /\ run' = [run EXCEPT !.scratch = Append(@, Observation(frame[p])),
                          !.trace = Append(@, Awaited(frame[p]))]
    /\ frame' = [frame EXCEPT ![p] = Idle]
    /\ call' = [call EXCEPT ![p] = NoCall]
    /\ UNCHANGED <<client, remote, wire, config, hist>>

\* a tool raised: the exception leaves ainvoke and run turns it into a text,
\* lines 140-155
ToolRaises(p) ==
    /\ run.phase \in {"dispatching", "notifying"}
    /\ frame[p].pc = "done"
    /\ frame[p].out.kind = "raise"
    /\ run' = [run EXCEPT !.phase = "done", !.output = Recover(frame[p].out.exc),
                          !.trace = Append(@, Awaited(frame[p]))]
    /\ frame' = [frame EXCEPT ![p] = Idle]
    /\ call' = [call EXCEPT ![p] = NoCall]
    /\ UNCHANGED <<client, remote, wire, config, hist>>

\* the engine finishes and run returns its final text, lines 137-139
Finish(p) ==
    /\ run.phase = "notifying"
    /\ frame[p].pc = "idle"
    /\ run' = [run EXCEPT !.phase = "done", !.output = Summary(run.scratch)]
    /\ UNCHANGED <<client, remote, frame, call, wire, config, hist>>

----------------------------------------------------------------------------
(* async_main: main.py, and the close of a client by its owner.            *)

\* AsyncApiClient.close called by the owner of client c
Close(c) ==
    /\ client' = [client EXCEPT ![c] = close(@)]
    /\ UNCHANGED <<remote, frame, call, wire, config, hist, run>>

\* closes one after the other: a close that raises skips the next one
MayCloseInTurn(c, cl) == c = "hubspot" \/ cl["hubspot"].aclose = "returned"

\* asyncio.gather(hubspot_agent.aclose(), email_agent.aclose(),
\* return_exceptions=True): each close is started whatever the other does
MayClose(c, cl) == TRUE

\* run is left by an exception it does not catch (CancelledError,
\* KeyboardInterrupt) while it awaits a tool
Cancelled ==
    /\ run.phase \in {"dispatching", "notifying"}
    /\ \E p \in Callers : Busy(p)
    /\ frame' = [p \in Callers |-> Idle]
    /\ call' = [p \in Callers |-> NoCall]
    /\ run' = [run EXCEPT !.phase = "done",
                          !.output = Output("raised", <<>>, 0, NoBody, "CancelledError")]
    /\ UNCHANGED <<client, remote, wire, config, hist>>

\* the finally clause: aclose of the agent that owns client c; closing an
\* open client may raise after the client has been marked closed
aclose(c, ok) ==
    /\ run.phase = "done"
    /\ client[c].aclose = "none"
    /\ MayClose(c, client)
    /\ ok \/ client[c].state = "open"
    /\ client' = [client EXCEPT ![c] =
                     [close(@) EXCEPT !.aclose = IF ok THEN "returned" ELSE "raised"]]
    /\ UNCHANGED <<remote, frame, call, wire, config, hist, run>>

\* gather has returned and async_main ends
Exit ==
    /\ run.phase = "done"
    /\ \A c \in Clients : client[c].aclose # "none" \/ ~MayClose(c, client)
    /\ run' = [run EXCEPT !.phase = "ended"]
    /\ UNCHANGED <<client, remote, frame, call, wire, config, hist>>

----------------------------------------------------------------------------
(* Specifications.                                                         *)

NoRun == [IdleRun EXCEPT !.phase = "none"]

\* the remote before the behaviour starts: empty, or holding one contact
InitRemotes ==
    {NewRemote,
     [NewRemote EXCEPT !.contacts = {[id |-> 1, email |-> "a@x.io"]}, !.nextId = 2]}

NoConfig == [default_confirmation_recipient |-> Null, HUBSPOT_ACCESS_TOKEN |-> Null]

NoHist == [count |-> 0, last |-> [name |-> "", payload |-> NoPayload, out |-> Pending]]

InitOf(callers, remotes, orchestrator) ==
    /\ client = [c \in Clients |-> NewClient]
    /\ remote \in remotes
    /\ frame = [p \in callers |-> Idle]
    /\ call = [p \in callers |-> NoCall]
    /\ wire = [p \in callers |-> <<>>]
    /\ config = NoConfig
    /\ hist = NoHist
    /\ run = orchestrator

Methods == {"GET"}

RequestInputs == {[NoPayload EXCEPT !.method = m] : m \in Methods}

ContactInputs ==
    {[NoPayload EXCEPT !.email = e, !.first_name = f] : e \in Emails, f \in {"Ann"}}

DealInputs ==
    {[NoPayload EXCEPT !.name = n, !.associated_contact_email = a] :
        n \in {Null}, a \in {Null} \cup Emails}

DealUpdateInputs ==
    {[NoPayload EXCEPT !.deal_id = d, !.stage = s] : d \in {1, 2}, s \in {"won"}}

\* sequential calls of AsyncApiClient.request against a remote of no
\* particular kind
InitRequest == InitOf({1}, {NewRemote}, NoRun)

NextRequest ==
    \/ \E p \in Callers, pl \in RequestInputs : Invoke(p, "request", pl)
    \/ \E p \in Callers : Attempt(p)
    \/ \E p \in Callers : Resume(p)
    \/ \E p \in Callers : Complete(p)

SpecRequest == InitRequest /\ [][NextRequest]_vars

\* the same, where every attempt in flight ends, answered or failed, and every
\* sleep between two attempts ends
SpecRequestLive == SpecRequest /\ WF_vars(\E p \in Callers : Attempt(p))

\* sequential calls of the methods of HubSpotAgent against the remote CRM
Init == InitOf({1}, InitRemotes, NoRun)

Next ==
    \/ \E p \in Callers, pl \in ContactInputs : Invoke(p, "create_contact", pl)
    \/ \E p \in Callers, pl \in ContactInputs : Invoke(p, "update_contact", pl)
    \/ \E p \in Callers, pl \in DealInputs : Invoke(p, "create_deal", pl)
    \/ \E p \in Callers, pl \in DealUpdateInputs : Invoke(p, "update_deal", pl)
    \/ \E p \in Callers : Attempt(p)
    \/ \E p \in Callers : Resume(p)
    \/ \E p \in Callers : Complete(p)

Spec == Init /\ [][Next]_vars

\* one run of the orchestrator against an empty remote
InitRun == InitOf({1}, {NewRemote}, IdleRun)

NextRun ==
    \/ \E plan \in Plans : StartRun(plan)
    \/ \E p \in Callers : Dispatch(p)
    \/ \E p \in Callers, pl \in NotifyInputs : Notify(p, pl)
    \/ \E p \in Callers : Attempt(p)
    \/ \E p \in Callers : Resume(p)
    \/ \E p \in Callers : ToolReturns(p)
    \/ \E p \in Callers : ToolRaises(p)
    \/ \E p \in Callers : Finish(p)

SpecRun == InitRun /\ [][NextRun]_vars

\* the arguments of the claims about what is sent
Names == {Null, "", "Big"}

Amounts == {NoAmount, <<0>>, <<1500000>>}

ContactUpdates ==
    {[NoPayload EXCEPT !.email = "a@x.io", !.first_name = f, !.last_name = l, !.phone = ph] :
        f \in {Null, "", "Ann"}, l \in {Null, "Lee"}, ph \in {Null, "555"}}

DealUpdates ==
    {[NoPayload EXCEPT !.deal_id = 1, !.name = n, !.amount = a, !.stage = s, !.pipeline = pi] :
        n \in Names, a \in Amounts, s \in {Null, "won"}, pi \in {Null, "default"}}

DealCreations ==
    {[NoPayload EXCEPT !.name = n, !.amount = a, !.associated_contact_email = e] :
        n \in Names, a \in Amounts, e \in {Null, "a@x.io"}}

\* update_contact and update_deal with any fields, against a remote that
\* holds contact 1 and deal 1
InitUpdate ==
    InitOf({1}, {[NewRemote EXCEPT !.contacts = {[id |-> 1, email |-> "a@x.io"]},
                                    !.deals = {1}, !.nextId = 2]}, NoRun)

NextUpdate ==
    \/ \E p \in Callers, pl \in ContactUpdates : InvokeFew(p, "update_contact", pl)
    \/ \E p \in Callers, pl \in DealUpdates : InvokeFew(p, "update_deal", pl)
    \/ \E p \in Callers : Attempt(p)
    \/ \E p \in Callers : Resume(p)
    \/ \E p \in Callers : Complete(p)

SpecUpdate == InitUpdate /\ [][NextUpdate]_vars

\* create_deal with any name, amount and associated email
NextDeal ==
    \/ \E p \in Callers, pl \in DealCreations : InvokeFew(p, "create_deal", pl)
    \/ \E p \in Callers : Attempt(p)
    \/ \E p \in Callers : Resume(p)
    \/ \E p \in Callers : Complete(p)

SpecDeal == Init /\ [][NextDeal]_vars

\* two callers whose request calls share the client of one HubSpotAgent,
\* against a remote that holds deal 1
InitShared ==
    InitOf({1, 2}, {[NewRemote EXCEPT !.deals = {1}, !.nextId = 2]}, NoRun)

NextShared ==
    \/ \E p \in Callers, pl \in DealUpdateInputs : Invoke(p, "update_deal", pl)
    \/ \E p \in Callers : Attempt(p)
    \/ \E p \in Callers : Resume(p)
    \/ \E p \in Callers : Complete(p)

SpecShared == InitShared /\ [][NextShared]_vars

\* two callers whose create_contact calls run concurrently against a remote
\* that answers every request and whose search sees the contacts it holds
InitRace == InitOf({1, 2}, {NewRemote}, NoRun)

NextRace ==
    \/ \E p \in Callers, pl \in ContactInputs : Invoke(p, "create_contact", pl)
    \/ \E p \in Callers : AttemptAnswered(p)
    \/ \E p \in Callers : Resume(p)
    \/ \E p \in Callers : Complete(p)

SpecRace == InitRace /\ [][NextRace]_vars

\* the contact lookup by itself, its search answered in any shape
NextLookup ==
    \/ \E p \in Callers, pl \in ContactInputs : Invoke(p, "_get_contact_by_email", pl)
    \/ \E p \in Callers : AttemptSearch(p)
    \/ \E p \in Callers : Resume(p)
    \/ \E p \in Callers : Complete(p)

SpecLookup == InitRequest /\ [][NextLookup]_vars

\* requests and closes of one AsyncApiClient in any order
NextClient ==
    \/ NextRequest
    \/ \E c \in Clients : Close(c)

SpecClient == InitRequest /\ [][NextClient]_vars

\* async_main: one run, then the finally clause
NextMain ==
    \/ NextRun
    \/ Cancelled
    \/ \E c \in Clients, ok \in BOOLEAN : aclose(c, ok)
    \/ Exit

SpecMain == InitRun /\ [][NextMain]_vars

\* the values of an access token, as an argument and in the environment:
\* none, empty, or a token
ApiKeys == {Null, "", "key"}

EnvTokens == {Null, "", "env-token"}

\* the process before HubSpotAgent is constructed, then the calls of the
\* agent constructed
InitConstruct ==
    /\ client = [c \in Clients |-> IF c = "hubspot" THEN NoClient ELSE NewClient]
    /\ remote \in InitRemotes
    /\ frame = [p \in {1} |-> Idle]
    /\ call = [p \in {1} |-> NoCall]
    /\ wire = [p \in {1} |-> <<>>]
    /\ config \in {[NoConfig EXCEPT !.HUBSPOT_ACCESS_TOKEN = e] : e \in EnvTokens}
    /\ hist = NoHist
    /\ run = NoRun

NextConstruct ==
    \/ \E k \in ApiKeys : Construct(k)
    \/ \E p \in Callers, pl \in ContactInputs : InvokeOn(p, "create_contact", pl)
    \/ \E p \in Callers : Attempt(p)
    \/ \E p \in Callers : Resume(p)
    \/ \E p \in Callers : Complete(p)

SpecConstruct == InitConstruct /\ [][NextConstruct]_vars

\* the values of default_confirmation_recipient: not configured, configured
\* empty, or an address
DefaultRecipients == {Null, "", "ops@x.io"}

\* the arguments of send_confirmation: to_email none, empty, an address or
\* a string that is none; subject none, empty or given
ConfirmationInputs ==
    {[NoPayload EXCEPT !.to_email = t, !.subject = u] :
        t \in {Null, "", "a@x.io", "not-an-address"}, u \in {Null, "", "Your CRM update"}}

\* sequential calls of EmailAgent.send_confirmation
InitConfirm ==
    /\ client = [c \in Clients |-> NewClient]
    /\ remote = NewRemote
    /\ frame = [p \in {1} |-> Idle]
    /\ call = [p \in {1} |-> NoCall]
    /\ wire = [p \in {1} |-> <<>>]
    /\ config \in {[NoConfig EXCEPT !.default_confirmation_recipient = d] :
                      d \in DefaultRecipients}
    /\ hist = NoHist
    /\ run = NoRun

NextConfirm ==
    \/ \E p \in Callers, pl \in ConfirmationInputs : InvokeFew(p, "send_confirmation", pl)
    \/ \E p \in Callers : Attempt(p)
    \/ \E p \in Callers : Resume(p)
    \/ \E p \in Callers : Complete(p)

SpecConfirm == InitConfirm /\ [][NextConfirm]_vars

----------------------------------------------------------------------------
(* Claims about AsyncApiClient.request, checked under SpecRequest.         *)

Ended(c) == ~c.active /\ c.out.kind # "none"

Transient(got) == got.kind = "error" /\ got.err \in TransientTypes

Answered(got, statuses) == got.kind = "response" /\ got.resp.status \in statuses

LastTry(c) == c.tries[Len(c.tries)]

\* C1: whatever the remote produces, a call of request makes at most 3
\* HTTP attempts; a 4th attempt is never issued.
C1_AtMostThreeAttempts ==
    \A p \in Callers : call[p].attempts <= 3 /\ Len(call[p].tries) <= 3

\* a call whose 3 attempts all failed with a transient error
C1_Witness ==
    \E p \in Callers :
        /\ Ended(call[p]) /\ call[p].attempts = 3
        /\ \A i \in 1..3 : Transient(call[p].tries[i])

\* C2: a call whose first two attempts fail with a transient error does
\* not end before its third attempt, and when that attempt is answered with a
\* 2xx status the call returns the decoded body of that response and nothing
\* of the two failures.
C2_ThirdAttemptSucceeds ==
    \A p \in Callers :
        LET c == call[p]
        IN  (Ended(c) /\ Len(c.tries) >= 2 /\ Transient(c.tries[1]) /\ Transient(c.tries[2]))
            => /\ Len(c.tries) = 3
               /\ Answered(c.tries[3], 200..299)
                  => /\ c.out.kind = "return"
                     /\ c.out.exc = NoExc
                     /\ c.out.body = Decode(c.tries[3].resp)

\* two transient failures, then a 2xx response whose JSON body is returned
C2_Witness ==
    \E p \in Callers :
        LET c == call[p]
        IN  /\ Ended(c) /\ Len(c.tries) = 3
            /\ Transient(c.tries[1]) /\ Transient(c.tries[2])
            /\ Answered(c.tries[3], 200..299)
            /\ c.out = Returned(DictBody(7, <<>>))

\* C3: when an attempt is answered with a 4xx or 5xx status, it is the last
\* attempt of the call, and the call has ended by raising ApiError with that
\* status and the decoded body as details.
C3_HttpErrorIsTerminal ==
    \A p \in Callers :
        LET c == call[p]
        IN  \A i \in 1..Len(c.tries) :
                Answered(c.tries[i], 400..599)
                => /\ i = Len(c.tries)
                   /\ Ended(c)
                   /\ c.out.kind = "raise"
                   /\ c.out.exc = ApiError(c.tries[i].resp.status, Decode(c.tries[i].resp))

\* a 500 on the second attempt ends the call with ApiError 500
C3_Witness ==
    \E p \in Callers :
        LET c == call[p]
        IN  /\ Ended(c) /\ Len(c.tries) = 2
            /\ Transient(c.tries[1])
            /\ Answered(c.tries[2], {500})
            /\ c.out.exc.type = "ApiError" /\ c.out.exc.status = 500

\* C4: when all 3 attempts fail with a transient error, the call raises the
\* transient error of the last attempt itself, neither ApiError nor an error
\* of the retry library, and returns nothing.
C4_ExhaustionReraises ==
    \A p \in Callers :
        LET c == call[p]
        IN  (Len(c.tries) = 3 /\ \A i \in 1..3 : Transient(c.tries[i]))
            => /\ Ended(c)
               /\ c.out.kind = "raise"
               /\ c.out.body = NoBody
               /\ c.out.exc.type = c.tries[3].err
               /\ c.out.exc.type \notin {"ApiError", "tenacity.RetryError"}

\* three transient failures of different kinds: the last one is raised
C4_Witness ==
    \E p \in Callers :
        LET c == call[p]
        IN  /\ Len(c.tries) = 3 /\ \A i \in 1..3 : Transient(c.tries[i])
            /\ c.tries[1].err # c.tries[3].err
            /\ c.out.kind = "raise" /\ c.out.exc.type = "asyncio.TimeoutError"

\* C5: a call returns a body if and only if the response of its final attempt
\* has a status in [200, 300); a response with any other status, 1xx and 3xx
\* included, makes it fail with ApiError carrying that status.
C5_ReturnIffSuccessStatus ==
    \A p \in Callers :
        LET c == call[p]
        IN  Ended(c)
            => /\ c.out.kind = "return" <=> Answered(LastTry(c), 200..299)
               /\ (LastTry(c).kind = "response" /\ ~Answered(LastTry(c), 200..299))
                  => /\ c.out.kind = "raise"
                     /\ c.out.exc.type = "ApiError"
                     /\ c.out.exc.status = LastTry(c).resp.status

\* a 3xx response makes the call fail with ApiError 300
C5_Witness ==
    \E p \in Callers :
        LET c == call[p]
        IN  /\ Ended(c) /\ Answered(LastTry(c), {300})
            /\ c.out.kind = "raise" /\ c.out.exc.status = 300

----------------------------------------------------------------------------
(* Claims about HubSpotAgent, checked under Spec.                          *)

AtDone(p, name) == frame[p].name = name /\ frame[p].pc = "done"

IsSearch(w) == w.req.method = "POST" /\ w.req.path = SearchPath

Conflict(w) ==
    /\ w.req.method = "POST" /\ w.req.path = ContactsPath
    /\ w.out.kind = "raise" /\ w.out.exc.type = "ApiError" /\ w.out.exc.status = 409

\* the search answered that there is no contact
FoundNothing(w) ==
    IsSearch(w) /\ w.out.kind = "return" /\ FirstResult(w.out.body) = NoneContact

\* the remote behaved as C6 supposes during the method of caller p: every call
\* was answered, with success or with the conflict, and no search missed a
\* stored contact
Sound(p) ==
    \A i \in 1..Len(wire[p]) :
        /\ wire[p][i].out.kind = "return" \/ Conflict(wire[p][i])
        /\ FoundNothing(wire[p][i]) => ContactsOf(remote, wire[p][i].req.email) = {}

\* C6: create_contact(E) called again after create_contact(E) returned: when
\* the remote answers soundly the second call returns, and whenever it returns
\* it returns the id the first call returned, tagged "existing", and the remote
\* holds exactly one contact for E.
C6_CreateTwiceSameId ==
    \A p \in Callers :
        (/\ AtDone(p, "create_contact")
         /\ hist.last.name = "create_contact"
         /\ hist.last.payload.email = frame[p].payload.email
         /\ hist.last.out.kind = "return")
        => /\ Sound(p) => frame[p].out.kind = "return"
           /\ frame[p].out.kind = "return"
              => /\ frame[p].out.body.id = hist.last.out.body.id
                 /\ frame[p].out.body.id # 0
                 /\ frame[p].out.body.status = "existing"
                 /\ Cardinality(ContactsOf(remote, frame[p].payload.email)) = 1

\* the first call created the contact, the second one returns it as existing
C6_Witness ==
    \E p \in Callers :
        /\ AtDone(p, "create_contact")
        /\ hist.last.name = "create_contact"
        /\ hist.last.payload.email = frame[p].payload.email
        /\ hist.last.out.kind = "return"
        /\ hist.last.out.body.status = ""
        /\ frame[p].out.kind = "return"
        /\ frame[p].out.body.status = "existing"
        /\ frame[p].out.body.id = hist.last.out.body.id

\* C7: when the create POST is answered with 409 and the lookup that follows
\* returns no contact, create_contact raises the ApiError of the POST (status
\* 409, the details of the create response) and returns no record.
C7_ConflictWithoutContactReraises ==
    \A p \in Callers :
        (/\ AtDone(p, "create_contact")
         /\ Len(wire[p]) = 2
         /\ Conflict(wire[p][1])
         /\ FoundNothing(wire[p][2]))
        => /\ frame[p].out.kind = "raise"
           /\ frame[p].out.body = NoBody
           /\ frame[p].out.exc = wire[p][1].out.exc
           /\ frame[p].out.exc = ApiError(409, ErrorDoc("Contact already exists"))

C7_Witness ==
    \E p \in Callers :
        /\ AtDone(p, "create_contact")
        /\ Len(wire[p]) = 2
        /\ Conflict(wire[p][1])
        /\ FoundNothing(wire[p][2])
        /\ frame[p].out.exc.status = 409

\* update_contact(E) of caller p is under way or done and the remote holds
\* no contact for E
UpdatingUnknown(p) ==
    /\ frame[p].name = "update_contact"
    /\ ContactsOf(remote, frame[p].payload.email) = {}

C8_State ==
    \A p \in Callers :
        UpdatingUnknown(p)
        => /\ \A i \in 1..Len(wire[p]) : IsSearch(wire[p][i])
           /\ call[p].active => call[p].req = SearchReq(frame[p].payload.email)
           /\ frame[p].pc = "done"
              => /\ frame[p].out.kind = "raise"
                 /\ wire[p][1].out.kind = "return"
                    => frame[p].out.exc = ValidationError
                 /\ wire[p][1].out.kind = "raise"
                    => frame[p].out.exc = wire[p][1].out.exc

C8_Step ==
    \A p \in Callers : UpdatingUnknown(p) => remote' = remote

\* C8: update_contact(E) for an email E the remote holds no contact for issues
\* nothing but the search, leaves the remote as it is, never returns, and
\* fails with ValidationError once the search is answered (with the error of
\* the search when the search fails).
C8_UpdateUnknownFails == []C8_State /\ [][C8_Step]_vars

C8_Witness ==
    \E p \in Callers :
        /\ UpdatingUnknown(p)
        /\ frame[p].pc = "done"
        /\ remote.contacts # {}
        /\ Len(wire[p]) = 1
        /\ frame[p].out.exc = ValidationError

\* C9: when the deal POST of create_deal succeeds and the association lookup
\* finds no contact, the caller receives the created deal, with its id,
\* together with the ValidationError.
C9_DealReturnedWithError ==
    \A p \in Callers :
        (/\ AtDone(p, "create_deal")
         /\ Len(wire[p]) = 2
         /\ wire[p][1].out.kind = "return"
         /\ FoundNothing(wire[p][2]))
        => /\ frame[p].out.exc = ValidationError
           /\ frame[p].out.body.id # 0
           /\ frame[p].out.body.id = wire[p][1].out.body.id

----------------------------------------------------------------------------
(* Claims about OrchestratorAgent.run, checked under SpecRun.              *)

CrmActions == {"create_contact", "update_contact", "create_deal", "update_deal"}

\* the CRM operations the text returned by run reports as succeeded
Successes(output) ==
    Cardinality({i \in 1..Len(output.entries) : output.entries[i].action \in CrmActions})

\* the operations the text returned by run reports as failed
Failures(output) == IF output.kind \in {"api_error", "error"} THEN 1 ELSE 0

\* C10: in a run whose plan has 3 CRM operations of which the 2nd fails with
\* ApiError or ValidationError, the 3rd operation is still dispatched, the
\* notification step is still invoked, and the result reports 2 successes
\* and 1 failure.
C10_RunSurvivesFailure ==
    (/\ run.phase = "done"
     /\ Len(run.plan) = 3
     /\ Len(run.trace) >= 2
     /\ run.trace[2].kind = "raise"
     /\ run.trace[2].type \in {"ApiError", "ValidationError"})
    => /\ run.next > 3
       /\ run.notified
       /\ Successes(run.output) = 2
       /\ Failures(run.output) = 1

LastAwaited == run.trace[Len(run.trace)]

\* the notification step of the run failed
NotificationFailed ==
    /\ run.phase = "done"
    /\ run.trace # <<>>
    /\ LastAwaited.action = "send_confirmation"
    /\ LastAwaited.kind = "raise"

\* the CRM operations of the run whose tool returned
Succeeded == {i \in 1..Len(run.trace) :
                 run.trace[i].action \in CrmActions /\ run.trace[i].kind = "return"}

\* C11: when the notification step fails, the output of run still reports
\* the CRM operations that succeeded before it as succeeded.
C11_NotificationFailureKeepsReport ==
    NotificationFailed => Successes(run.output) = Cardinality(Succeeded)

\* C12: a run passes through dispatching, notifying and done in that order:
\* once the notification step has started no CRM operation is dispatched, and
\* no run ends without having reached the notification step.
C12_PhasesInOrder ==
    /\ run.phase \in {"idle", "dispatching"} => ~run.notified
    /\ run.notified => \A p \in Callers : frame[p].name \notin CrmActions
    /\ run.phase = "notifying" => run.next > Len(run.plan)
    /\ run.phase = "done" => run.notified

\* C13: no exception of an operation leaves run: run returns a text, which
\* for an ApiError holds its status and its details, or its message when it
\* has no details.
C13_RunReturnsText ==
    /\ run.phase = "done" => run.output.kind \in {"output", "api_error", "error"}
    /\ (run.phase = "done" /\ run.trace # <<>> /\ LastAwaited.kind = "raise")
       => /\ run.output.kind \in {"api_error", "error"}
          /\ run.output.type = LastAwaited.exc.type
          /\ LastAwaited.exc.type = "ApiError"
             => /\ run.output.kind = "api_error"
                /\ run.output.status = LastAwaited.exc.status
                /\ run.output.detail = IF LastAwaited.exc.details = NoBody
                                       THEN TextBody("HTTP request failed")
                                       ELSE LastAwaited.exc.details

\* the second operation raised ValidationError and the third met a 500: both
\* runs ended with a text
C13_Witness ==
    /\ run.phase = "done"
    /\ run.trace # <<>>
    /\ LastAwaited.kind = "raise"
    /\ LastAwaited.exc.type = "ApiError"
    /\ run.output.kind = "api_error"
    /\ run.output.status = 500
    /\ Len(run.trace) = 2

\* a request call has made an attempt on client c, now or earlier
Used(c) ==
    \/ \E p \in Callers : call[p].client = c /\ call[p].attempts > 0
    \/ \E p \in Callers : wire[p] # <<>>
    \/ hist.count > 0

\* C14: over the lifetime of an AsyncApiClient one connection pool is
\* created: none before the first request, one at the first request, and no
\* second one afterwards, whatever requests and closes follow.
C14_OnePoolEver ==
    /\ ~Used("hubspot") => client["hubspot"].created = 0
    /\ Used("hubspot") => client["hubspot"].created = 1

\* C15: when async_main has ended, the close of both agents has been
\* attempted, whether or not the other one raised, and no client is open.
C15_BothClosedAtExit ==
    run.phase = "ended"
    => \A c \in Clients : client[c].aclose # "none" /\ client[c].state # "open"

\* both clients were opened by the run, the close of the CRM client raised
\* and the close of the email client was still made
C15_Witness ==
    /\ run.phase = "ended"
    /\ client["hubspot"].aclose = "raised"
    /\ client["email"].aclose = "returned"
    /\ client["email"].created = 1
    /\ client["email"].closed = 1

\* the outcome of a request call as its own attempts alone determine it
OwnOutcome(c) ==
    IF c.tries = <<>> THEN Pending
    ELSE Retrying(Len(c.tries), RequestBody(LastTry(c)))

\* C16: the attempt counter belongs to each request call: whatever calls run
\* on the same client, one after the other or interleaved, a call counts its
\* own attempts only, is retried only after a transient failure of its own
\* attempt, and fails or returns by the outcome of its own last attempt,
\* giving up on transient failures only after 3 attempts of its own.
C16_AttemptsPerCall ==
    \A p \in Callers :
        LET c == call[p]
        IN  /\ c.attempts = Len(c.tries)
            /\ c.out = OwnOutcome(c)
            /\ \A i \in 1..(Len(c.tries) - 1) : Transient(c.tries[i])
            /\ (c.active /\ c.tries # <<>>) => Transient(LastTry(c)) /\ Len(c.tries) < 3
            /\ (Ended(c) /\ Transient(LastTry(c))) => Len(c.tries) = 3

\* two calls in flight on one client: the first used its 3 attempts and
\* failed, the second made 1 attempt in between and returned
C16_Witness ==
    /\ call[1].client = call[2].client
    /\ Ended(call[1]) /\ Len(call[1].tries) = 3 /\ call[1].out.kind = "raise"
    /\ Ended(call[2]) /\ Len(call[2].tries) = 1 /\ call[2].out.kind = "return"
    /\ frame[1].pc # "idle" /\ frame[2].pc # "idle"

\* the requests caller p has issued in its present method, in order
Requests(p) ==
    [i \in 1..Len(wire[p]) |-> wire[p][i].req]
    \o (IF Busy(p) THEN <<call[p].req>> ELSE <<>>)

\* the text fields of an update by their remote names
TextFields(name, pl) ==
    IF name = "update_contact"
    THEN {<<"firstname", pl.first_name>>, <<"lastname", pl.last_name>>, <<"phone", pl.phone>>}
    ELSE {<<"dealname", pl.name>>, <<"dealstage", pl.stage>>, <<"pipeline", pl.pipeline>>}

\* the fields the caller supplied as non-null
Supplied(name, pl) ==
    {<<f[1], <<f[2]>>>> : f \in {g \in TextFields(name, pl) : g[2] # Null}}
    \cup (IF name = "update_deal" /\ pl.amount # NoAmount
          THEN {<<"amount", pl.amount>>} ELSE {})

\* C17: every PATCH of update_contact and update_deal carries exactly the
\* fields the caller supplied as non-null, the empty string included, and
\* neither a null field nor the lookup key; update_deal issues nothing but
\* its one PATCH of the deal the caller named, and no lookup.
C17_SparsePatch ==
    \A p \in Callers :
        LET fr == frame[p]
            rs == Requests(p)
        IN  fr.name \in {"update_contact", "update_deal"}
            => /\ \A i \in 1..Len(rs) :
                     rs[i].method = "PATCH"
                     => /\ rs[i].props = Supplied(fr.name, fr.payload)
                        /\ \A kv \in rs[i].props :
                              kv[1] \notin {"email", "deal_id", "id", "hs_object_id"}
               /\ fr.name = "update_deal"
                  => /\ Len(rs) <= 1
                     /\ \A i \in 1..Len(rs) :
                           /\ rs[i].method = "PATCH" /\ rs[i].path = DealPath
                           /\ rs[i].id = fr.payload.deal_id
                     /\ fr.pc = "done" => Len(rs) = 1

\* an update of the first name to the empty string and of the phone, the
\* last name left null: the PATCH carried those two fields
C17_Witness ==
    \E p \in Callers :
        /\ frame[p].name = "update_contact" /\ frame[p].pc = "done"
        /\ frame[p].out.kind = "return"
        /\ frame[p].payload.first_name = "" /\ frame[p].payload.last_name = Null
        /\ Len(wire[p]) = 2
        /\ wire[p][2].req.method = "PATCH"
        /\ wire[p][2].req.props = {<<"firstname", <<"">>>>, <<"phone", <<"555">>>>}

\* the default name of a deal without a name
DefaultName(pl) ==
    IF pl.associated_contact_email # Null
    THEN <<"Deal for ", pl.associated_contact_email>>
    ELSE IF pl.amount = <<0>> THEN <<"Deal ", "0">>
    ELSE IF pl.amount # NoAmount THEN <<"Deal ", FormatG(pl.amount[1])>>
    ELSE <<"Untitled Deal">>

\* create_deal of caller p starts with the deal POST, and every deal POST it
\* issues carries the one name expected
SendsName(p, expected) ==
    LET rs == Requests(p)
    IN  /\ rs # <<>>
        /\ rs[1].method = "POST" /\ rs[1].path = DealsPath
        /\ \A i \in 1..Len(rs) :
              rs[i].path = DealsPath
              => {kv[2] : kv \in {x \in rs[i].props : x[1] = "dealname"}} = {expected}

\* C18, a name being any name that is not null: the deal name create_deal
\* sends is the given name when the caller gave one; else "Deal for {email}"
\* when an associated email is given, with or without an amount; else "Deal "
\* and the amount when an amount is given, 0 included; else "Untitled Deal".
C18_DealNameByPresence ==
    \A p \in Callers :
        LET pl == frame[p].payload
        IN  frame[p].name = "create_deal"
            => SendsName(p, IF pl.name # Null THEN <<pl.name>> ELSE DefaultName(pl))

\* C18, the empty name counting as no name: the deal name is the given name
\* when it is neither null nor empty, and the default name by the same order
\* of email, amount and "Untitled Deal" otherwise.
C18_DealNameDefault ==
    \A p \in Callers :
        LET pl == frame[p].payload
        IN  frame[p].name = "create_deal"
            => SendsName(p, IF pl.name # Null /\ pl.name # ""
                            THEN <<pl.name>> ELSE DefaultName(pl))

\* a deal of amount 0 with the empty name and no email was created as
\* "Deal 0"
C18_Witness ==
    \E p \in Callers :
        /\ frame[p].name = "create_deal" /\ frame[p].pc = "done"
        /\ frame[p].out.kind = "return"
        /\ frame[p].payload.amount = <<0>>
        /\ frame[p].payload.name = ""
        /\ <<"dealname", <<"Deal ", "0">>>> \in wire[p][1].req.props

\* C19: within one request call the first wait is 0.5 s, every wait is
\* between 0.5 s and 4 s, and no wait is shorter than the one before it; in
\* half seconds: the first is 1, all are in 1..8. There is one wait after
\* each attempt that is followed by another.
C19_WaitsGrowWithinBounds ==
    \A p \in Callers :
        LET c == call[p]
            w == c.waits
        IN  /\ Len(w) = Len(c.tries) - (IF Ended(c) THEN 1 ELSE 0)
            /\ w # <<>> => w[1] = 1
            /\ \A i \in 1..Len(w) : w[i] \in 1..8
            /\ \A i \in 1..(Len(w) - 1) : w[i] <= w[i + 1]

\* a call that made 3 attempts waited 0.5 s, then 1 s
C19_Witness ==
    \E p \in Callers :
        /\ Ended(call[p]) /\ Len(call[p].tries) = 3
        /\ call[p].waits = <<1, 2>>

\* the create POST of create_contact failed otherwise than with ApiError 409
OtherFailure(w) ==
    /\ w.req.method = "POST" /\ w.req.path = ContactsPath
    /\ w.out.kind = "raise"
    /\ ~Conflict(w)

\* C20: create_contact recovers from one failure only, ApiError 409 on the
\* create POST: it issues a lookup only after that, and it returns after a
\* failed POST only then. After an ApiError of any other status or a
\* transport error that outlived the retries it issues no further request and
\* raises that very error.
C20_OnlyConflictRecovered ==
    \A p \in Callers :
        frame[p].name = "create_contact"
        => LET rs == Requests(p)
           IN  /\ \A i \in 1..Len(rs) :
                     (rs[i].method = "POST" /\ rs[i].path = SearchPath)
                     => i = 2 /\ Conflict(wire[p][1])
               /\ (wire[p] # <<>> /\ OtherFailure(wire[p][1]))
                  => /\ Len(rs) = 1
                     /\ frame[p].pc = "done"
                     /\ frame[p].out = Raised(wire[p][1].out.exc)
               /\ (frame[p].pc = "done" /\ frame[p].out.kind = "return"
                     /\ wire[p][1].out.kind = "raise")
                  => Conflict(wire[p][1])

\* the create POST met a 500: create_contact raised that ApiError after one
\* request
C20_Witness ==
    \E p \in Callers :
        /\ AtDone(p, "create_contact")
        /\ Len(wire[p]) = 1
        /\ OtherFailure(wire[p][1])
        /\ wire[p][1].out.exc.type = "ApiError" /\ wire[p][1].out.exc.status = 500
        /\ frame[p].out = Raised(wire[p][1].out.exc)

\* C21: every request call terminates: when each of its attempts ends with
\* a response or a failure, the call returns a body or raises, and it never
\* makes more than 3 attempts or more than 2 waits.
C21_RequestTerminates ==
    /\ [](call[1].attempts <= 3 /\ Len(call[1].waits) <= 2)
    /\ call[1].active ~> (Ended(call[1]) /\ call[1].out.kind \in {"return", "raise"})

\* a call that ended with ApiError at its third attempt, after 2 waits
C21_Witness ==
    /\ Ended(call[1])
    /\ call[1].attempts = 3 /\ Len(call[1].waits) = 2
    /\ call[1].out.kind = "raise" /\ call[1].out.exc.type = "ApiError"

\* the deal POST of create_deal of caller p returned the created deal
DealPosted(p) ==
    /\ frame[p].name = "create_deal"
    /\ wire[p] # <<>>
    /\ wire[p][1].out.kind = "return" /\ wire[p][1].out.body.kind = "dict"

PostedId(p) == wire[p][1].out.body.id

\* after the deal POST, create_deal of caller p issues nothing but the
\* lookup and the association PUT of that deal, and the deal stays
NoCompensation(p) ==
    LET rs == Requests(p)
    IN  /\ PostedId(p) \in remote.deals
        /\ \A i \in 2..Len(rs) :
              \/ rs[i].method = "POST" /\ rs[i].path = SearchPath
              \/ rs[i].method = "PUT" /\ rs[i].path = AssocPath /\ rs[i].id = PostedId(p)

Associated(d) == \E a \in remote.assocs : a[1] = d

\* C22, for every later failure alike: once the deal POST of create_deal
\* has succeeded, a failure of the lookup or of the PUT causes no delete and
\* no further mutation of the deal, and the deal remains in the remote without
\* the association.
C22_DealKeptUnassociated ==
    \A p \in Callers :
        DealPosted(p)
        => /\ NoCompensation(p)
           /\ (frame[p].pc = "done" /\ frame[p].out.kind = "raise")
              => ~Associated(PostedId(p))

\* C22, the failed PUT set apart: the same, where the deal is without the
\* association when the lookup failed or found no contact, so that no PUT was
\* issued; a PUT that failed may have been carried out by the remote at an
\* attempt whose answer was lost.
C22_NoCompensatingCall ==
    \A p \in Callers :
        DealPosted(p)
        => /\ NoCompensation(p)
           /\ (frame[p].pc = "done" /\ frame[p].out.kind = "raise" /\ Len(wire[p]) = 2)
              => ~Associated(PostedId(p))

\* the lookup after the deal POST failed with ApiError: two requests were
\* issued and the deal is in the remote, unassociated
C22_Witness ==
    \E p \in Callers :
        /\ DealPosted(p) /\ frame[p].pc = "done"
        /\ Len(wire[p]) = 2
        /\ wire[p][2].out.kind = "raise" /\ wire[p][2].out.exc.type = "ApiError"
        /\ frame[p].out = Raised(wire[p][2].out.exc)
        /\ PostedId(p) \in remote.deals /\ ~Associated(PostedId(p))

\* C23: create_deal issues the deal POST, then the contact lookup, then the
\* association PUT: the lookup only after the POST succeeded, the PUT only
\* after the lookup returned a contact id and with that id, never with none;
\* without an associated email it issues the POST and nothing else.
C23_DealCallsInOrder ==
    \A p \in Callers :
        frame[p].name = "create_deal"
        => LET rs == Requests(p)
               email == frame[p].payload.associated_contact_email
           IN  /\ rs # <<>> /\ Len(rs) <= 3
               /\ rs[1].method = "POST" /\ rs[1].path = DealsPath
               /\ \A i \in 2..Len(rs) :
                     \/ /\ i = 2
                        /\ rs[i] = SearchReq(email)
                        /\ DealPosted(p)
                     \/ /\ i = 3
                        /\ rs[i].method = "PUT" /\ rs[i].path = AssocPath
                        /\ wire[p][2].out.kind = "return"
                        /\ ContactId(wire[p][2].out.body) # 0
                        /\ rs[i].id2 = ContactId(wire[p][2].out.body)
                        /\ rs[i].id = PostedId(p)
               /\ email = Null => Len(rs) = 1
               /\ (frame[p].pc = "done" /\ frame[p].out.kind = "return" /\ email # Null)
                  => Len(rs) = 3

\* a deal was created and associated: POST, lookup and PUT, in that order
C23_Witness ==
    \E p \in Callers :
        /\ AtDone(p, "create_deal") /\ frame[p].out.kind = "return"
        /\ Len(wire[p]) = 3
        /\ wire[p][1].req.path = DealsPath
        /\ IsSearch(wire[p][2])
        /\ wire[p][3].req.method = "PUT" /\ wire[p][3].out.kind = "return"
        /\ <<PostedId(p), wire[p][3].req.id2>> \in remote.assocs

\* the calls of agent methods made so far, ended or not
CallsMade == hist.count + Cardinality({p \in Callers : frame[p].pc # "idle"})

\* C24: a call of create_deal leaves at most one deal record in the remote,
\* also when the remote processed an attempt of the deal POST whose response
\* was lost and the POST was retried: the remote never holds more deals than
\* there were calls of create_deal.
C24_OneDealPerCall == Cardinality(remote.deals) <= CallsMade

\* the first call of the behaviour creates a contact for the email that no
\* remote holds at the start, and its POST ended with 409: the contact is that
\* of an attempt of this POST whose response was lost
LostCreate(p) ==
    /\ AtDone(p, "create_contact")
    /\ hist.count = 0
    /\ frame[p].payload.email = "b@x.io"
    /\ Conflict(wire[p][1])

\* C25: when the remote processed an attempt of the create POST whose
\* response was lost and answers the retried POST with 409, create_contact
\* looks the contact up, and when the lookup is answered with the contact it
\* returns the contact the lost attempt created, tagged "existing"; the remote
\* holds exactly one contact for the email.
C25_LostCreateRecovered ==
    \A p \in Callers :
        LostCreate(p)
        => LET held == ContactsOf(remote, frame[p].payload.email)
           IN  /\ Cardinality(held) = 1
               /\ Len(wire[p]) = 2 /\ IsSearch(wire[p][2])
               /\ (wire[p][2].out.kind = "return" /\ ~FoundNothing(wire[p][2]))
                  => /\ frame[p].out.kind = "return"
                     /\ frame[p].out.body.status = "existing"
                     /\ \E c \in held : frame[p].out.body.id = c.id
               /\ frame[p].out.kind = "return"
                  => /\ frame[p].out.body.status = "existing"
                     /\ \E c \in held : frame[p].out.body.id = c.id

\* the lost attempt created contact 1 for b@x.io in an empty remote, the
\* retry met 409 and create_contact returned contact 1 as existing
C25_Witness ==
    \E p \in Callers :
        /\ LostCreate(p)
        /\ frame[p].out.kind = "return"
        /\ frame[p].out.body.status = "existing"
        /\ frame[p].out.body.id = 1
        /\ remote.contacts = {[id |-> 1, email |-> "b@x.io"]}

\* the first two calls of the behaviour are create_contact for one email,
\* running at the same time, and both have ended
RaceEnded ==
    /\ hist.count = 0
    /\ AtDone(1, "create_contact") /\ AtDone(2, "create_contact")
    /\ frame[1].payload.email = frame[2].payload.email

\* C26: two create_contact calls for one email that run concurrently,
\* against a remote that allows one contact per email and whose search sees
\* the contacts it holds: however their requests interleave, both return the
\* same contact id, one contact has been created, and at most one of the two
\* results is tagged "existing".
C26_ConcurrentCreateOneContact ==
    RaceEnded
    => /\ frame[1].out.kind = "return" /\ frame[2].out.kind = "return"
       /\ frame[1].out.body.id = frame[2].out.body.id
       /\ remote.contacts = {[id |-> frame[1].out.body.id, email |-> frame[1].payload.email]}
       /\ Cardinality({p \in Callers : frame[p].out.body.status = "existing"}) <= 1

\* caller 2 won the race and created contact 1; caller 1, which had started
\* first, met 409 and returned contact 1 as existing
C26_Witness ==
    /\ RaceEnded
    /\ frame[2].out.body.id = 1 /\ frame[2].out.body.status = ""
    /\ frame[1].out.body.id = 1 /\ frame[1].out.body.status = "existing"
    /\ Len(wire[1]) = 2 /\ Conflict(wire[1][1])

\* every underlying client built so far has been closed at most once, and
\* all but an open one have been closed
C27_State ==
    \A c \in Clients :
        /\ client[c].state = "none" => client[c].created = 0 /\ client[c].closed = 0
        /\ client[c].state = "open" => client[c].closed = client[c].created - 1
        /\ client[c].state = "closed" => client[c].closed = client[c].created
        /\ client[c].closed <= client[c].created

\* a step that closes a client closes an open one, builds none and leaves
\* none open
C27_Step ==
    \A c \in Clients :
        client'[c].closed # client[c].closed
        => /\ client[c].state = "open"
           /\ client'[c].closed = client[c].closed + 1
           /\ client'[c].created = client[c].created
           /\ client'[c].state = "closed"

\* C27: however often close is called, each underlying client is closed at
\* most once; close before any request builds no client and closes nothing;
\* after close, and until a further request, no client is open.
C27_CloseAtMostOnce == []C27_State /\ [][C27_Step]_vars

\* a client that served a whole request call and was closed afterwards
C27_Witness ==
    /\ client["hubspot"] = [state |-> "closed", created |-> 1, closed |-> 1, aclose |-> "none"]
    /\ hist.count = 1
    /\ hist.last.out.kind = "return"

\* what a call that ended on a response hands to its caller: the body it
\* returns, or the details of the ApiError it raises
Handed(c) == IF c.out.kind = "return" THEN c.out.body ELSE c.out.exc.details

\* C28: decoding never makes a request call fail. A response that declares
\* JSON and whose body does not parse yields its raw text, a response that
\* declares no JSON yields its raw text whatever its body, and whether the call
\* returns or raises ApiError follows from the status alone.
C28_DecodingNeverFails ==
    \A p \in Callers :
        LET c == call[p]
            r == LastTry(c).resp
        IN  (Ended(c) /\ LastTry(c).kind = "response")
            => /\ c.out.kind = "raise" => c.out.exc.type = "ApiError"
               /\ c.out.kind = "return" <=> r.status \in 200..299
               /\ (r.ctype \in JsonTypes /\ r.doc = NoBody) => Handed(c) = TextBody(r.text)
               /\ r.ctype \notin JsonTypes => Handed(c) = TextBody(r.text)
               /\ (r.ctype \in JsonTypes /\ r.doc # NoBody) => Handed(c) = r.doc

\* a 200 response that declares JSON and does not parse: the call returned
\* its raw text
C28_Witness ==
    \E p \in Callers :
        LET c == call[p]
        IN  /\ Ended(c) /\ Answered(LastTry(c), {200})
            /\ LastTry(c).resp.ctype \in JsonTypes /\ LastTry(c).resp.doc = NoBody
            /\ c.out = Returned(TextBody("raw"))

\* C29: when the create POST is answered with 409 and the lookup that
\* follows fails, with ApiError or with a transport error that outlived the
\* retries, create_contact returns no record and raises the error of the
\* lookup, not the 409 of the POST.
C29_LookupErrorReachesCaller ==
    \A p \in Callers :
        (/\ AtDone(p, "create_contact")
         /\ Len(wire[p]) = 2
         /\ Conflict(wire[p][1])
         /\ IsSearch(wire[p][2]) /\ wire[p][2].out.kind = "raise")
        => /\ frame[p].out = Raised(wire[p][2].out.exc)
           /\ frame[p].out.body = NoBody
           /\ frame[p].out.exc # wire[p][1].out.exc
           /\ ~(frame[p].out.exc.type = "ApiError" /\ frame[p].out.exc.status = 409)

\* the lookup after the 409 exhausted its retries on timeouts: the caller got
\* the timeout
C29_Witness ==
    \E p \in Callers :
        /\ AtDone(p, "create_contact")
        /\ Len(wire[p]) = 2 /\ Conflict(wire[p][1])
        /\ wire[p][2].out = Raised(TransportError("httpx.ReadTimeout"))
        /\ frame[p].out = Raised(TransportError("httpx.ReadTimeout"))

\* what the lookup returns for a body: the first result as the dict of its
\* id when the body is a dict with a result list that is not empty
Looked(body) ==
    IF body.kind = "dict" /\ Len(body.results) >= 1
    THEN DictBody(body.results[1].id, <<>>)
    ELSE NoBody

\* C30: the contact lookup issues one search call, a POST to the search
\* path filtered on equality with the given email with limit 1, and no other
\* call; it returns the first result when the response is a dict with a
\* result list that is not empty, and none for an empty or missing list and
\* for a body that is no dict; a search that fails fails the lookup.
C30_LookupSearchesOnce ==
    \A p \in Callers :
        frame[p].name = "_get_contact_by_email"
        => LET rs == Requests(p)
               email == frame[p].payload.email
           IN  /\ Len(rs) = 1
               /\ rs[1].method = "POST" /\ rs[1].path = SearchPath
               /\ rs[1].email = email
               /\ rs[1].props = {<<"filter", <<"email", "EQ", email>>>>, <<"limit", <<1>>>>}
               /\ frame[p].pc = "done"
                  => /\ wire[p][1].out.kind = "return"
                        => frame[p].out = Returned(Looked(wire[p][1].out.body))
                     /\ wire[p][1].out.kind = "raise"
                        => frame[p].out = Raised(wire[p][1].out.exc)

\* a search answered with two results: the lookup returned the first
C30_Witness ==
    \E p \in Callers :
        /\ AtDone(p, "_get_contact_by_email")
        /\ Len(wire[p][1].out.body.results) = 2
        /\ wire[p][1].out.body.results[1].id = 2
        /\ frame[p].out = Returned(DictBody(2, <<>>))

\* C31: constructing HubSpotAgent with no api_key argument and no
\* HUBSPOT_ACCESS_TOKEN value (none or empty, either of them) raises
\* ValidationError; no AsyncApiClient is built by it, no HTTP client is ever
\* created and no request is ever made while the constructor has failed.
NoToken == ~Truthy(hist.last.payload.api_key) /\ ~Truthy(config.HUBSPOT_ACCESS_TOKEN)

C31_State ==
    (hist.last.name = "HubSpotAgent" /\ NoToken)
    => /\ hist.last.out = Raised(ValidationError)
       /\ client["hubspot"] = NoClient
       /\ \A p \in Callers : ~Busy(p) /\ ~call[p].active /\ wire[p] = <<>>

C31_Step ==
    (hist'.last.name = "HubSpotAgent" /\ hist' # hist /\ ~Truthy(config.HUBSPOT_ACCESS_TOKEN)
        /\ ~Truthy(hist'.last.payload.api_key))
    => /\ hist'.last.out = Raised(ValidationError)
       /\ UNCHANGED <<client, remote, frame, call, wire>>

C31_NoTokenNoTransport == []C31_State /\ [][C31_Step]_vars

C31_Witness ==
    /\ hist.last.name = "HubSpotAgent"
    /\ hist.last.payload.api_key = Null
    /\ config.HUBSPOT_ACCESS_TOKEN = Null
    /\ hist.last.out = Raised(ValidationError)

\* C32: a send_confirmation call that has ended sent one message, to the
\* recipient given when one is given and to the configured default recipient
\* otherwise, under the subject "CRM Action Confirmation" when none is given;
\* when neither a recipient is given nor a default is configured (none or
\* empty, either of them) it raised ValidationError and sent nothing.
C32_ConfirmationRecipient ==
    \A p \in Callers :
        hist.last.name = "send_confirmation" =>
            LET to == hist.last.payload.to_email
                default == config.default_confirmation_recipient
                recipient == IF Truthy(to) THEN to ELSE default
            IN  /\ EmailStr(recipient)
                   => /\ Len(wire[p]) = 1
                      /\ wire[p][1].req.method = "POST" /\ wire[p][1].req.path = MailPath
                      /\ wire[p][1].req.email = recipient
                      /\ hist.last.payload.subject = Null
                         => wire[p][1].req.props = {<<"subject", <<"CRM Action Confirmation">>>>}
                /\ (~Truthy(to) /\ ~Truthy(default))
                   => hist.last.out = Raised(ValidationError) /\ wire[p] = <<>>

====
